---------------------------- MODULE Spec2Model ----------------------------
(***************************************************************************)
(* A model of the Poisson mixture model class PMM                          *)
(* (src/poisson_mixture_model/pmm.py): the sample store filled by          *)
(* add_samples, the variational inference engine fit and the divergence    *)
(* evaluator kl_divergence.                                                *)
(*                                                                         *)
(* Numbers.  Counts are integers.  Every float the engine stores           *)
(* (responsibilities, Gamma shape and rate, Dirichlet concentration) is a  *)
(* fixed-point integer in units of 1/Unit, so that the updates of lines    *)
(* 96-99 (sums and products of responsibilities and counts) are exact.     *)
(* NaN is the float not-a-number.  The softmax of lines 90-95 goes through *)
(* digamma, log and exp and is not computed: it is replaced by its range,  *)
(* any matrix whose rows lie on the probability simplex and that gives     *)
(* equal rows of X equal responsibilities.                                 *)
(***************************************************************************)
EXTENDS Integers, Sequences, FiniteSets, TLC

VARIABLES
    data_stack,   \* self.data_stack: the rows [x1, x2, z, trial], in order
    pi,           \* self.pi: the mixing weights used to generate samples
    lamb,         \* self.lamb: the rates used to generate samples
    pi_inf,       \* self.pi_inf: responsibilities, one N x K matrix per snapshot
    r_inf,        \* self.r_inf: Gamma rates, one K vector per snapshot
    s_inf,        \* self.s_inf: Gamma shapes, one K x D matrix per snapshot
    alpha_inf,    \* self.alpha_inf: Dirichlet concentrations, one K vector each
    drawn,        \* history: the (pi, lam) that _sampling drew, per trial
    call          \* history: the last call, its arguments and its outcome

vars == <<data_stack, pi, lamb, pi_inf, r_inf, s_inf, alpha_inf, drawn, call>>

store == <<data_stack, pi, lamb, drawn>>
trajectory == <<pi_inf, r_inf, s_inf, alpha_inf>>

----------------------------------------------------------------------------
(* Sizes *)

K == 2          \* self.K, the number of classes
D == 2          \* the data dimension: the columns x1 and x2
N == 1          \* self.N, the number of samples per trial
Unit == 2       \* the fixed-point representation of 1.0
NaN == -1000    \* the float not-a-number
MaxTrials == 2  \* trials the store holds at most
MaxIter == 2    \* n_iter is drawn from 0..MaxIter
MaxObs == 2     \* a direct call of fit passes 1..MaxObs observations

Classes == 0 .. K - 1

----------------------------------------------------------------------------
(* Floats, vectors and matrices.  A vector is a sequence, a matrix a       *)
(* sequence of rows.                                                       *)

IsNaN(x) == x = NaN

FAdd(x, y) == IF IsNaN(x) \/ IsNaN(y) THEN NaN ELSE x + y

FMul(x, y) == IF IsNaN(x) \/ IsNaN(y) THEN NaN ELSE x * y

RECURSIVE FSum(_)
FSum(v) == IF v = <<>> THEN 0 ELSE FAdd(Head(v), FSum(Tail(v)))

VecAdd(u, v) == [i \in 1 .. Len(u) |-> FAdd(u[i], v[i])]

MatAdd(A, B) == [i \in 1 .. Len(A) |-> VecAdd(A[i], B[i])]

\* pi_new.sum(axis=0): the column sums of a matrix with `cols` columns
ColSums(A, cols) ==
    [k \in 1 .. cols |-> FSum([n \in 1 .. Len(A) |-> A[n][k]])]

\* dot(P.T, X): P is rows x K, X is rows x D, the result K x D
DotT(P, X) ==
    [k \in 1 .. K |->
        [d \in 1 .. D |->
            FSum([n \in 1 .. Len(P) |-> FMul(P[n][k], X[n][d])])]]

VecHasNaN(v) == \E i \in 1 .. Len(v) : IsNaN(v[i])

MatHasNaN(A) == \E i \in 1 .. Len(A) : VecHasNaN(A[i])

VecPositive(v) == \A i \in 1 .. Len(v) : ~IsNaN(v[i]) /\ v[i] > 0

MatPositive(A) == \A i \in 1 .. Len(A) : VecPositive(A[i])

Last(s) == s[Len(s)]

----------------------------------------------------------------------------
(* numpy arrays of self.pi and self.lamb: ndim and the nested data *)

EmptyArray == [ndim |-> 1, a |-> <<>>]

Array1(v) == [ndim |-> 1, a |-> v]

Array2(m) == [ndim |-> 2, a |-> m]

\* np.atleast_2d, which np.vstack applies to each argument
Rows(x) == IF x.ndim = 1 THEN <<x.a>> ELSE x.a

VStack(x, y) == Array2(Rows(x) \o Rows(y))

\* x[t] for a 0-based t within range: an entry of a vector, a row of a matrix
Index(x, t) == [ndim |-> x.ndim - 1, a |-> x.a[t + 1]]

----------------------------------------------------------------------------
(* The sample store *)

\* The outcomes of stats.dirichlet.rvs (in tenths) and of stats.gamma.rvs
\* that are drawn
PiDraws == {<<5, 5>>, <<3, 7>>}
LamDraws == {<<<<1, 1>>, <<2, 2>>>>, <<<<3, 1>>, <<1, 3>>>>}

\* The outcomes of the two stats.poisson.rvs of one sample that are drawn
CountDraws == {<<0, 1>>, <<2, 0>>}

\* One sample [x1, x2, z]
Samples == {[x1 |-> c[1], x2 |-> c[2], z |-> z] : c \in CountDraws, z \in Classes}

\* One call of _sampling: its draws
SamplingDraws == [pi : PiDraws, lam : LamDraws, rows : [1 .. N -> Samples]]

NTrials(stack) == Len(stack) \div N

\* _sampling: the new self.pi and self.lamb
SamplingPi(p, dr) == IF p.a = <<>> THEN Array1(dr.pi) ELSE VStack(p, Array1(dr.pi))

SamplingLamb(p, l, dr) ==
    IF p.a = <<>> THEN Array2(dr.lam) ELSE VStack(l, Array2(dr.lam))

\* A label that leaves out the trials the store holds already
TrialLabelOfCall(i, n_trials) == i

\* Line 48: the trial number of the i-th batch of a call, i from 0
TrialLabel(i, n_trials) == i + n_trials

\* Lines 48-49: the batch with its trial column, as appended to the store
Labelled(dr, trial) ==
    [n \in 1 .. N |->
        [x1 |-> dr.rows[n].x1, x2 |-> dr.rows[n].x2, z |-> dr.rows[n].z,
         trial |-> trial]]

\* The loop of add_samples over the draws ds, from the state st
RECURSIVE AddLoop(_, _, _, _)
AddLoop(st, ds, i, n_trials) ==
    IF i > Len(ds) THEN st
    ELSE AddLoop([data_stack |-> st.data_stack \o Labelled(ds[i], TrialLabel(i - 1, n_trials)),
                  pi |-> SamplingPi(st.pi, ds[i]),
                  lamb |-> SamplingLamb(st.pi, st.lamb, ds[i]),
                  drawn |-> Append(st.drawn, [pi |-> ds[i].pi, lam |-> ds[i].lam])],
                 ds, i + 1, n_trials)

\* pick_sample(trial) on a store that has its columns
PickSample(stack, trial) ==
    LET Of(row) == row.trial = trial
        rows == SelectSeq(stack, Of)
    IN  [n \in 1 .. Len(rows) |-> [x1 |-> rows[n].x1, x2 |-> rows[n].x2, z |-> rows[n].z]]

\* pick_sample(trial)[['x1', 'x2']].values
Values(rows) == [n \in 1 .. Len(rows) |-> <<rows[n].x1, rows[n].x2>>]

\* add_samples(n), _sampling drawing from `draws`
AddSamplesFrom(draws) ==
    \E n \in 0 .. MaxTrials - NTrials(data_stack) :
    \E ds \in [1 .. n -> draws] :
        LET st == AddLoop([data_stack |-> data_stack, pi |-> pi, lamb |-> lamb,
                           drawn |-> drawn], ds, 1, NTrials(data_stack))
        IN  /\ data_stack' = st.data_stack
            /\ pi' = st.pi
            /\ lamb' = st.lamb
            /\ drawn' = st.drawn
            /\ call' = [op |-> "add_samples", n_iter |-> n, raised |-> "none"]
            /\ UNCHANGED trajectory

AddSamples == AddSamplesFrom(SamplingDraws)

\* The draws of the trials the divergence evaluator is run on: their pi and
\* lam are of no account to it and are the same
TrialDraws ==
    {dr \in SamplingDraws :
        /\ dr.pi = <<5, 5>>
        /\ dr.lam = <<<<1, 1>>, <<2, 2>>>>
        /\ \A n \in 1 .. N : dr.rows[n].z = 0}

AddTrials == AddSamplesFrom(TrialDraws)

----------------------------------------------------------------------------
(* The variational inference engine *)

\* The observation matrices a direct call of fit passes, with n rows
ObsRows == {<<0, 1>>, <<2, 0>>}
Observations(n) == [1 .. n -> ObsRows]

\* The initial hyperparameters a call passes, for n observations: two valid
\* choices, and one with a non-positive rate, shape or concentration each
InitChoices(n) ==
    { [init_pi |-> [i \in 1 .. n |-> <<1, Unit - 1>>],
       init_r |-> <<Unit, Unit>>,
       init_s |-> <<<<Unit, Unit>>, <<Unit, Unit>>>>,
       init_alpha |-> <<Unit, Unit>>],
      [init_pi |-> [i \in 1 .. n |-> <<Unit, 0>>],
       init_r |-> <<1, 2 * Unit>>,
       init_s |-> <<<<1, Unit>>, <<Unit, 3>>>>,
       init_alpha |-> <<1, 3>>],
      [init_pi |-> [i \in 1 .. n |-> <<1, Unit - 1>>],
       init_r |-> <<0, Unit>>,
       init_s |-> <<<<Unit, Unit>>, <<Unit, Unit>>>>,
       init_alpha |-> <<Unit, Unit>>],
      [init_pi |-> [i \in 1 .. n |-> <<1, Unit - 1>>],
       init_r |-> <<Unit, Unit>>,
       init_s |-> <<<<Unit, -1>>, <<Unit, Unit>>>>,
       init_alpha |-> <<Unit, Unit>>],
      [init_pi |-> [i \in 1 .. n |-> <<1, Unit - 1>>],
       init_r |-> <<Unit, Unit>>,
       init_s |-> <<<<Unit, Unit>>, <<Unit, Unit>>>>,
       init_alpha |-> <<Unit, 0>>] }

\* The valid choices among them
ValidInits(n) ==
    {init \in InitChoices(n) :
        VecPositive(init.init_r) /\ MatPositive(init.init_s)
            /\ VecPositive(init.init_alpha)}

\* The rows exp(ln_pi - logsumexp(ln_pi)) can take: the probability simplex
Simplex == {p \in [1 .. K -> 0 .. Unit] : FSum(p) = Unit}

NaNRow == [k \in 1 .. K |-> NaN]

\* Lines 90-95, pi_new.  With positive s_old, r_old and alpha_old every
\* digamma and log is finite and each row is a point of the simplex that
\* depends on that row of X alone.  log of a non-positive or NaN rate, and
\* any NaN, makes every row NaN.  digamma of a non-positive shape or
\* concentration is finite, infinite or NaN with the argument and the scipy
\* version: each row is then a point of the simplex or NaN.
Responsibilities(X, s_old, r_old, alpha_old) ==
    IF \/ MatHasNaN(s_old) \/ VecHasNaN(r_old) \/ VecHasNaN(alpha_old)
       \/ \E k \in 1 .. K : r_old[k] <= 0
    THEN {[n \in 1 .. Len(X) |-> NaNRow]}
    ELSE LET rows == IF MatPositive(s_old) /\ VecPositive(alpha_old)
                     THEN Simplex ELSE Simplex \cup {NaNRow}
         IN  {P \in [1 .. Len(X) -> rows] :
                \A n, m \in 1 .. Len(X) : X[n] = X[m] => P[n] = P[m]}

\* A start that appends the initial snapshot to the trajectory it finds
FitStartKept(init) ==
    [pi_inf |-> Append(pi_inf, init.init_pi),
     r_inf |-> Append(r_inf, init.init_r),
     s_inf |-> Append(s_inf, init.init_s),
     alpha_inf |-> Append(alpha_inf, init.init_alpha)]

\* Lines 82-85: the trajectory holds the initial snapshot alone
FitStart(init) ==
    [pi_inf |-> <<init.init_pi>>,
     r_inf |-> <<init.init_r>>,
     s_inf |-> <<init.init_s>>,
     alpha_inf |-> <<init.init_alpha>>]

\* An update that replaces the trajectory by the new snapshot
FitStepReplaced(tr, X, init, pi_new) ==
    LET n_new == ColSums(pi_new, K)
    IN  [pi_inf |-> <<pi_new>>,
         r_inf |-> <<VecAdd(n_new, init.init_r)>>,
         s_inf |-> <<MatAdd(DotT(pi_new, X), init.init_s)>>,
         alpha_inf |-> <<VecAdd(n_new, init.init_alpha)>>]

\* An update that leaves the initial values out
FitStepNoPrior(tr, X, init, pi_new) ==
    LET n_new == ColSums(pi_new, K)
    IN  [pi_inf |-> Append(tr.pi_inf, pi_new),
         r_inf |-> Append(tr.r_inf, n_new),
         s_inf |-> Append(tr.s_inf, DotT(pi_new, X)),
         alpha_inf |-> Append(tr.alpha_inf, n_new)]

\* An update that adds the previous snapshot, a posterior-to-posterior chain
FitStepChained(tr, X, init, pi_new) ==
    LET n_new == ColSums(pi_new, K)
    IN  [pi_inf |-> Append(tr.pi_inf, pi_new),
         r_inf |-> Append(tr.r_inf, VecAdd(n_new, Last(tr.r_inf))),
         s_inf |-> Append(tr.s_inf, MatAdd(DotT(pi_new, X), Last(tr.s_inf))),
         alpha_inf |-> Append(tr.alpha_inf, VecAdd(n_new, Last(tr.alpha_inf)))]

\* Lines 96-103: the update from pi_new, appended to the trajectory
FitStep(tr, X, init, pi_new) ==
    LET s_new == MatAdd(DotT(pi_new, X), init.init_s)
        n_new == ColSums(pi_new, K)
        r_new == VecAdd(n_new, init.init_r)
        alpha_new == VecAdd(n_new, init.init_alpha)
    IN  [pi_inf |-> Append(tr.pi_inf, pi_new),
         r_inf |-> Append(tr.r_inf, r_new),
         s_inf |-> Append(tr.s_inf, s_new),
         alpha_inf |-> Append(tr.alpha_inf, alpha_new)]

\* The trajectories n iterations of the loop of lines 86-103 can leave
RECURSIVE FitRuns(_, _, _)
FitRuns(X, init, n) ==
    IF n = 0 THEN {FitStart(init)}
    ELSE UNION {{FitStep(tr, X, init, P) :
                    P \in Responsibilities(X, Last(tr.s_inf), Last(tr.r_inf),
                                           Last(tr.alpha_inf))} :
                tr \in FitRuns(X, init, n - 1)}

\* fit: its trajectory and the exception it raises.  np.append of line 100
\* raises ValueError in the first iteration when X and init_pi differ in
\* their number of rows; the trajectory is then the initial snapshot.
FitRaises(X, init, n_iter) == n_iter >= 1 /\ Len(X) # Len(init.init_pi)

FitOutcomes(X, init, n_iter) ==
    IF FitRaises(X, init, n_iter)
    THEN {[tr |-> FitStart(init), raised |-> "ValueError"]}
    ELSE {[tr |-> t, raised |-> "none"] : t \in FitRuns(X, init, n_iter)}

\* A call of fit with n \in rows observations and an initial snapshot of inits[n]
FitCall(rows, inits) ==
    \E n \in rows :
    \E X \in Observations(n) :
    \E init \in inits[n] :
    \E n_iter \in 0 .. MaxIter :
    \E out \in FitOutcomes(X, init, n_iter) :
        /\ pi_inf' = out.tr.pi_inf
        /\ r_inf' = out.tr.r_inf
        /\ s_inf' = out.tr.s_inf
        /\ alpha_inf' = out.tr.alpha_inf
        /\ call' = [op |-> "fit", X |-> X, init |-> init, n_iter |-> n_iter,
                    found |-> Len(pi_inf), raised |-> out.raised]
        /\ UNCHANGED store

\* fit called with 1..MaxObs observations
Fit == FitCall(1 .. MaxObs, [n \in 1 .. MaxObs |-> InitChoices(n)])

\* fit called with the observations of one trial
FitTrial == FitCall({N}, [n \in {N} |-> ValidInits(n)])

----------------------------------------------------------------------------
(* The divergence evaluator *)

KlArgNames == {"init_pi", "init_r", "init_s", "init_alpha", "n_iter", "n_trials"}

\* The trajectory as the state holds it
Stored ==
    [pi_inf |-> pi_inf, r_inf |-> r_inf, s_inf |-> s_inf, alpha_inf |-> alpha_inf]

\* The arguments a call leaves out: none, all, n_trials, n_iter and n_trials
OmitChoices == {{}, KlArgNames, {"n_trials"}, {"n_iter", "n_trials"}}

\* The argument lists of the calls: the arguments given, by name
KlArgChoices ==
    {[x \in KlArgNames \ omitted |-> full[x]] :
        omitted \in OmitChoices,
        full \in {[init_pi |-> init.init_pi, init_r |-> init.init_r,
                   init_s |-> init.init_s, init_alpha |-> init.init_alpha,
                   n_iter |-> n_iter, n_trials |-> n_trials] :
                     init \in ValidInits(N), n_iter \in 0 .. MaxIter,
                     n_trials \in 0 .. MaxTrials}}

\* An argument not given is None
Omitted(given) == KlArgNames \ DOMAIN given

\* Defaults taken argument by argument: a given argument is kept
EffectiveEach(given) ==
    [x \in KlArgNames |->
        IF x \in DOMAIN given THEN given[x]
        ELSE CASE x = "init_pi" -> pi_inf[1]
               [] x = "init_r" -> r_inf[1]
               [] x = "init_s" -> s_inf[1]
               [] x = "init_alpha" -> alpha_inf[1]
               [] x = "n_iter" -> Len(pi_inf) - 1
               [] OTHER -> NTrials(data_stack)]

\* Lines 117-124: the arguments the loop runs with.  One argument left out
\* replaces all six by the values of the stored trajectory and of the store.
Effective(given) ==
    IF Omitted(given) # {}
    THEN [init_pi |-> pi_inf[1], init_r |-> r_inf[1], init_s |-> s_inf[1],
          init_alpha |-> alpha_inf[1], n_iter |-> Len(pi_inf) - 1,
          n_trials |-> NTrials(data_stack)]
    ELSE given

InitOf(a) ==
    [init_pi |-> a.init_pi, init_r |-> a.init_r, init_s |-> a.init_s,
     init_alpha |-> a.init_alpha]

\* Line 129: one column of the table, [_kl(X, i) for i in range(n_iter)].
\* The scalar _kl(X, i) is a function of snapshot i and is not computed: an
\* entry is the index i of the snapshot it is computed from.
KlColumn(n_iter) == [j \in 1 .. n_iter |-> j - 1]

\* Lines 126-129 from trial `trial` on, kl the columns so far.  pick_sample
\* raises KeyError on a store without columns.  Each fit starts its
\* trajectory afresh (lines 82-85): the trajectory a trial's fit leaves is
\* dropped by the fit of the next trial, and only the last fit's is kept.
RECURSIVE KlLoop(_, _, _)
KlLoop(a, trial, kl) ==
    IF trial = a.n_trials
    THEN {[tr |-> Stored, raised |-> "none", ret |-> kl]}
    ELSE IF data_stack = <<>>
    THEN {[tr |-> Stored, raised |-> "KeyError", ret |-> <<>>]}
    ELSE LET X == Values(PickSample(data_stack, trial))
         IN  IF FitRaises(X, InitOf(a), a.n_iter)
             THEN {[tr |-> o.tr, raised |-> o.raised, ret |-> <<>>] :
                        o \in FitOutcomes(X, InitOf(a), a.n_iter)}
             ELSE IF trial + 1 < a.n_trials
             THEN KlLoop(a, trial + 1, Append(kl, KlColumn(a.n_iter)))
             ELSE {[tr |-> o.tr, raised |-> "none",
                    ret |-> Append(kl, KlColumn(a.n_iter))] :
                        o \in FitOutcomes(X, InitOf(a), a.n_iter)}

\* Lines 130-131: DataFrame(np.array(kl).T, columns=...).  Without a trial
\* the array is empty and one-dimensional and the columns are none: pandas
\* raises ValueError or builds the empty table, with its version.
KlTable(out) ==
    IF out.raised = "none" /\ out.ret = <<>>
    THEN {out, [tr |-> out.tr, raised |-> "ValueError", ret |-> <<>>]}
    ELSE {out}

\* kl_divergence.  Reading self.pi_inf before any fit raises AttributeError.
KlOutcomes(given) ==
    IF Omitted(given) # {} /\ pi_inf = <<>>
    THEN {[tr |-> Stored, raised |-> "AttributeError", ret |-> <<>>]}
    ELSE UNION {KlTable(out) : out \in KlLoop(Effective(given), 0, <<>>)}

KlDivergence ==
    \E given \in KlArgChoices :
    \E out \in KlOutcomes(given) :
        /\ pi_inf' = out.tr.pi_inf
        /\ r_inf' = out.tr.r_inf
        /\ s_inf' = out.tr.s_inf
        /\ alpha_inf' = out.tr.alpha_inf
        /\ call' = [op |-> "kl_divergence", given |-> given,
                    raised |-> out.raised, ret |-> out.ret]
        /\ UNCHANGED store

----------------------------------------------------------------------------
Init ==
    /\ data_stack = <<>>
    /\ pi = EmptyArray
    /\ lamb = EmptyArray
    /\ pi_inf = <<>>
    /\ r_inf = <<>>
    /\ s_inf = <<>>
    /\ alpha_inf = <<>>
    /\ drawn = <<>>
    /\ call = [op |-> "init", raised |-> "none"]

NextStore == AddSamples

SpecStore == Init /\ [][NextStore]_vars

NextFit == Fit

SpecFit == Init /\ [][NextFit]_vars

Next == AddTrials \/ FitTrial \/ KlDivergence

Spec == Init /\ [][Next]_vars

----------------------------------------------------------------------------
(* Properties *)

IsFit == call.op = "fit"

IsKl == call.op = "kl_divergence"

ValidInit(init) ==
    VecPositive(init.init_r) /\ MatPositive(init.init_s) /\ VecPositive(init.init_alpha)

\* Snapshot i of the stored trajectory is the update for the observations X
\* from the initial values init and its own responsibilities
FromCall(i, X, init) ==
    /\ Len(pi_inf[i]) = Len(X)
    /\ s_inf[i] = MatAdd(DotT(pi_inf[i], X), init.init_s)
    /\ r_inf[i] = VecAdd(ColSums(pi_inf[i], K), init.init_r)
    /\ alpha_inf[i] = VecAdd(ColSums(pi_inf[i], K), init.init_alpha)

SameLengths(n) ==
    Len(pi_inf) = n /\ Len(r_inf) = n /\ Len(s_inf) = n /\ Len(alpha_inf) = n

StartsWith(init) ==
    /\ pi_inf[1] = init.init_pi
    /\ r_inf[1] = init.init_r
    /\ s_inf[1] = init.init_s
    /\ alpha_inf[1] = init.init_alpha

\* C1: after fit(X, init_pi, init_r, init_s, init_alpha, n_iter) completes,
\* each of pi_inf, s_inf, r_inf and alpha_inf has n_iter + 1 entries and
\* entry 0 is the initial value passed; with n_iter = 0 the trajectory is the
\* initial snapshot alone.
C1_TrajectoryLength ==
    (IsFit /\ call.raised = "none") =>
        SameLengths(call.n_iter + 1) /\ StartsWith(call.init)

C1_Witness ==
    /\ IsFit /\ call.raised = "none"
    /\ call.n_iter = MaxIter
    /\ Len(pi_inf) = MaxIter + 1
    /\ pi_inf[2] # pi_inf[1]

\* C2 as claimed: kl_divergence leaves the stored trajectory as it was.
C2_TrajectoryUntouched ==
    [][(call'.op = "kl_divergence" /\ call'.raised = "none")
         => trajectory' = trajectory]_vars

\* C2 as amended: kl_divergence runs fit on every trial.  When it returns
\* having evaluated one trial or more, the stored trajectory is a fresh one
\* of fit for the observations of the last trial evaluated: its entry 0
\* followed by the updates for those observations; when it evaluates no trial
\* the trajectory is as before the call.
C2_TrajectoryOfLastTrial ==
    /\ []((IsKl /\ call.raised = "none" /\ call.ret # <<>>) =>
            /\ SameLengths(Len(call.ret[1]) + 1)
            /\ \A i \in 2 .. Len(pi_inf) :
                  FromCall(i, Values(PickSample(data_stack, Len(call.ret) - 1)),
                           [init_s |-> s_inf[1], init_r |-> r_inf[1],
                            init_alpha |-> alpha_inf[1]]))
    /\ [][(call'.op = "kl_divergence" /\ call'.raised = "none"
              /\ call'.ret = <<>>) => trajectory' = trajectory]_vars

C2_Witness ==
    /\ IsKl /\ call.raised = "none"
    /\ Len(call.ret) = 2
    /\ Len(pi_inf) = MaxIter + 1
    /\ Values(PickSample(data_stack, 0)) # Values(PickSample(data_stack, 1))
    /\ s_inf[2] # MatAdd(DotT(pi_inf[2], Values(PickSample(data_stack, 0))), s_inf[1])

\* C3 as claimed: the table of kl_divergence holds, for every trial, one
\* value for each of the n_iter + 1 snapshots of that trial's trajectory,
\* indices 0..n_iter.
C3_ValueForEverySnapshot ==
    (IsKl /\ call.raised = "none" /\ call.ret # <<>>) =>
        \A t \in 1 .. Len(call.ret) :
            {call.ret[t][j] : j \in 1 .. Len(call.ret[t])} = 0 .. Len(pi_inf) - 1

\* C4 as claimed: fit with a non-positive entry in init_s, init_r or
\* init_alpha fails with InvalidHyperparameter and runs no update: the
\* trajectory is the one the call found or the initial snapshot.
C4_InvalidRejected ==
    (IsFit /\ ~ValidInit(call.init)) =>
        /\ call.raised = "InvalidHyperparameter"
        /\ Len(pi_inf) \in {call.found, 1}

\* C5: a fit call on a model that holds a trajectory starts a fresh one: the
\* stored trajectory has the n_iter + 1 snapshots of this call, the initial
\* values passed and then the updates for the observations passed, and none
\* of the call before.
C5_FreshTrajectory ==
    (IsFit /\ call.raised = "none" /\ call.found > 0) =>
        /\ SameLengths(call.n_iter + 1)
        /\ StartsWith(call.init)
        /\ \A i \in 2 .. Len(pi_inf) : FromCall(i, call.X, call.init)

C5_Witness ==
    /\ IsFit /\ call.raised = "none"
    /\ call.found = MaxIter + 1
    /\ call.n_iter = 1
    /\ Len(pi_inf) = 2

\* C6 as claimed: for every trial t generated, self.pi[t] is the vector of
\* mixing weights drawn for trial t and self.lamb[t] the K x D matrix of rates
\* drawn for trial t.
C6_ParametersByTrial ==
    \A t \in 0 .. Len(drawn) - 1 :
        /\ Index(pi, t).ndim = 1
        /\ Index(pi, t).a = drawn[t + 1].pi
        /\ Index(lamb, t).ndim = 2
        /\ Index(lamb, t).a = drawn[t + 1].lam

\* C7 as claimed: the arguments left out take the values of the most recent
\* fit (entry 0 of the stored trajectory, its length minus 1, the number of
\* trials in the store) and the arguments given are used as given.
C7_GivenArgumentsKept ==
    [][(call'.op = "kl_divergence" /\ call'.raised = "none"
            /\ Omitted(call'.given) # {} /\ Len(call'.ret) >= 1) =>
         /\ IF "n_trials" \in DOMAIN call'.given
            THEN Len(call'.ret) = call'.given["n_trials"]
            ELSE Len(call'.ret) = NTrials(data_stack)
         /\ IF "n_iter" \in DOMAIN call'.given
            THEN Len(pi_inf') - 1 = call'.given["n_iter"]
            ELSE Len(pi_inf') = Len(pi_inf)
         /\ IF "init_r" \in DOMAIN call'.given
            THEN r_inf'[1] = call'.given["init_r"]
            ELSE r_inf'[1] = r_inf[1]]_vars

\* C7 as amended: when one argument or more is left out, all six take the
\* values of the most recent fit, the arguments given too: the initial
\* snapshot is entry 0 of the stored trajectory, n_iter its length minus 1
\* and n_trials the number of trials in the store.  The arguments are used
\* as given only when all six are given.
C7_DefaultsReplaceAll ==
    [][(call'.op = "kl_divergence" /\ call'.raised = "none") =>
         IF Omitted(call'.given) # {}
         THEN /\ Len(call'.ret) = NTrials(data_stack)
              /\ Len(call'.ret) >= 1 =>
                    /\ Len(pi_inf') = Len(pi_inf)
                    /\ pi_inf'[1] = pi_inf[1]
                    /\ r_inf'[1] = r_inf[1]
                    /\ s_inf'[1] = s_inf[1]
                    /\ alpha_inf'[1] = alpha_inf[1]
         ELSE /\ Len(call'.ret) = call'.given.n_trials
              /\ Len(call'.ret) >= 1 =>
                    /\ Len(pi_inf') = call'.given.n_iter + 1
                    /\ pi_inf'[1] = call'.given.init_pi
                    /\ r_inf'[1] = call'.given.init_r
                    /\ s_inf'[1] = call'.given.init_s
                    /\ alpha_inf'[1] = call'.given.init_alpha]_vars

C7_Witness ==
    /\ IsKl /\ call.raised = "none"
    /\ Omitted(call.given) = {"n_trials"}
    /\ Len(call.ret) = 2
    /\ call.given.n_iter # Len(pi_inf) - 1
    /\ call.given.init_r # r_inf[1]

\* C8: for valid inputs (X non-negative, init_s, init_r and init_alpha
\* positive, the rows of init_pi summing to 1) every snapshot 0..n_iter of
\* the trajectory has positive Gamma shapes, Gamma rates and Dirichlet
\* concentrations.
C8_PositiveHyperparameters ==
    (IsFit /\ ValidInit(call.init)) =>
        \A i \in 1 .. Len(pi_inf) :
            MatPositive(s_inf[i]) /\ VecPositive(r_inf[i]) /\ VecPositive(alpha_inf[i])

C8_Witness ==
    /\ IsFit /\ ValidInit(call.init)
    /\ call.n_iter = MaxIter
    /\ Len(call.X) = MaxObs
    /\ \E k \in 1 .. K : \A n \in 1 .. Len(call.X) : pi_inf[MaxIter + 1][n][k] = 0

\* C9: at every iteration i >= 1 the new rate, concentration and shape are
\* the occupancy and the responsibility-weighted counts of that iteration
\* plus the initial values passed to the call, r[i] = n[i] + init_r,
\* alpha[i] = n[i] + init_alpha, s[i] = pi[i]^T X + init_s, and not plus the
\* values of iteration i - 1.
C9_FixedPriorUpdate ==
    (IsFit /\ call.raised = "none") =>
        \A i \in 2 .. Len(pi_inf) : FromCall(i, call.X, call.init)

C9_Witness ==
    /\ IsFit /\ call.raised = "none" /\ ValidInit(call.init)
    /\ Len(pi_inf) = 3
    /\ r_inf[2] # call.init.init_r
    /\ r_inf[3] # VecAdd(ColSums(pi_inf[3], K), r_inf[2])
    /\ s_inf[3] # MatAdd(DotT(pi_inf[3], call.X), s_inf[2])

\* C10: after any sequence of add_samples calls the store holds N records
\* for each trial 0..T-1, T the number of trials generated, batch by batch
\* in order, so that no two batches share a trial number; and add_samples
\* leaves the records pick_sample returns for a trial generated before as
\* they were.
C10_TrialsAppendOnly ==
    /\ [](/\ Len(data_stack) = N * Len(drawn)
          /\ \A j \in 1 .. Len(data_stack) : data_stack[j].trial = (j - 1) \div N
          /\ \A t \in 0 .. Len(drawn) - 1 : Len(PickSample(data_stack, t)) = N)
    /\ [][\A t \in 0 .. Len(drawn) - 1 :
            PickSample(data_stack', t) = PickSample(data_stack, t)]_vars

C10_Witness ==
    /\ call.op = "add_samples"
    /\ call.n_iter = 1
    /\ Len(drawn) = MaxTrials
    /\ PickSample(data_stack, 0) # PickSample(data_stack, MaxTrials - 1)

============================================================================
